---- MODULE Spec2Model ----
(***************************************************************************)
(* A model of pyRPC: the typed marshaling protocol (pyrpc/marshal.py,      *)
(* pyrpc/util.py), the server's endpoint resolution and reference registry *)
(* (pyrpc/server.py) and the client's proxies (pyrpc/client.py).           *)
(*                                                                         *)
(* Python strings are sequences of one-character strings, so that strip,   *)
(* split, join, lower, urljoin, int() and base64 are computed as the code  *)
(* computes them.  A Python value is a record [k |-> kind, v |-> payload]. *)
(***************************************************************************)
EXTENDS Integers, Sequences, FiniteSets, TLC

VARIABLES
    mpc,      \* marshal pipeline: position ("start", "marshaled", "wire", "done", "failed")
    msrc,     \* marshal pipeline: "value" (marshal a value, then unmarshal it) or
              \* "wire" (unmarshal a received object)
    mval,     \* marshal pipeline: the value handed to marshal
    mrf,      \* marshal pipeline: the ref_factory handed to marshal
    mnf,      \* marshal pipeline: the node_factory handed to unmarshal
    mtree,    \* marshal pipeline: what marshal returned
    mwire,    \* marshal pipeline: the object json.loads gives the receiver
    mout,     \* marshal pipeline: what unmarshal returned
    items,    \* server: the Item objects the root object has made, in order of
              \* creation: [addr |-> id(item), alive |-> still referenced]
    refs,     \* server: RPCServer.refs, id string -> the object the weakref is to
    running,  \* server: the event loop is serving requests
    node,     \* client: the RPCNode the caller holds from the last reference received
    last,     \* history: the last request handled and its response
    cl,       \* client alone: one proxy operation, the requests it sent, the
              \* response it was given and what it returned or raised
    mrec      \* marshal_obj call by call: the objects of the caller, the frames
              \* of the calls in progress and how the outermost call ended

mvars == <<mpc, msrc, mval, mrf, mnf, mtree, mwire, mout>>

svars == <<items, refs, running, node, last>>

vars == <<mpc, msrc, mval, mrf, mnf, mtree, mwire, mout,
          items, refs, running, node, last, cl, mrec>>

-----------------------------------------------------------------------------
(* Bounds of the model *)

\* nesting depth of the containers handed to marshal
MaxDepth == 2
\* length of the version strings handed to unmarshal
MaxVerLen == 3
\* how many Item objects the root object makes
MaxItems == 2
\* Items alive at the same time
MaxLive == 1
\* cells of the caller's heap in one call of marshal_obj
HeapSize == 3
\* frames the interpreter has room for, more than an acyclic heap needs
RecursionLimit == 5

-----------------------------------------------------------------------------
(* String literals of the source *)

Lit ==
    [type |-> <<"t", "y", "p", "e">>,
     data |-> <<"d", "a", "t", "a">>,
     dict |-> <<"d", "i", "c", "t">>,
     tuple |-> <<"t", "u", "p", "l", "e">>,
     set |-> <<"s", "e", "t">>,
     complex |-> <<"c", "o", "m", "p", "l", "e", "x">>,
     bytes |-> <<"b", "y", "t", "e", "s">>,
     ref |-> <<"r", "e", "f">>,
     url |-> <<"u", "r", "l">>,
     class |-> <<"c", "l", "a", "s", "s">>,
     ver |-> <<"v">>,
     ndarray |-> <<"n", "d", "a", "r", "r", "a", "y">>,
     shape |-> <<"s", "h", "a", "p", "e">>,
     size |-> <<"s", "i", "z", "e">>,
     bogus |-> <<"b", "o", "g", "u", "s">>,
     TestType |-> <<"T", "e", "s", "t", "T", "y", "p", "e">>,
     ref_url |-> <<"/", "r", "e", "f", "_", "u", "r", "l">>,
     args |-> <<"a", "r", "g", "s">>,
     kwargs |-> <<"k", "w", "a", "r", "g", "s">>,
     endpoint |-> <<"e", "n", "d", "p", "o", "i", "n", "t">>,
     self |-> <<"s", "e", "l", "f">>,
     id |-> <<"i", "d">>,
     sig |-> <<"_", "_", "s", "i", "g", "_", "_">>,
     json |->
         <<"a", "p", "p", "l", "i", "c", "a", "t", "i", "o", "n", "/", "j", "s", "o", "n">>,
     xjson |->
         <<"a", "p", "p", "l", "i", "c", "a", "t", "i", "o", "n", "/", "x", "-", "j", "s", "o", "n">>,
     json_utf8 |->
         <<"a", "p", "p", "l", "i", "c", "a", "t", "i", "o", "n", "/", "j", "s", "o", "n", ";", " ", "c", "h", "a", "r", "s", "e", "t", "=", "U", "T", "F", "-", "8">>,
     text |-> <<"t", "e", "x", "t", "/", "p", "l", "a", "i", "n">>,
     Root |-> <<"R", "o", "o", "t">>,
     Item |-> <<"I", "t", "e", "m">>,
     method |-> <<"m", "e", "t", "h", "o", "d">>,
     partial |-> <<"p", "a", "r", "t", "i", "a", "l">>,
     Signature |-> <<"S", "i", "g", "n", "a", "t", "u", "r", "e">>,
     unknown_type |->
         <<"U", "n", "k", "n", "o", "w", "n", " ", "t", "y", "p", "e", " ", "a", "n", "n", "o", "t", "a", "t", "i", "o", "n", " ", "{", "t", "y", "}">>]

-----------------------------------------------------------------------------
(* Python str methods, on sequences of characters *)

SetMin(S) == CHOOSE x \in S : \A y \in S : x <= y
SetMax(S) == CHOOSE x \in S : \A y \in S : x >= y

\* str.strip(chars): drop the leading and trailing characters that are in cs
Strip(s, cs) ==
    LET keep == {i \in 1..Len(s) : s[i] \notin cs}
    IN  IF keep = {} THEN <<>> ELSE SubSeq(s, SetMin(keep), SetMax(keep))

\* str.split(c): the pieces between the occurrences of c, never an empty list
RECURSIVE Split(_, _)
Split(s, c) ==
    LET hits == {i \in 1..Len(s) : s[i] = c}
    IN  IF hits = {} THEN <<s>>
        ELSE <<SubSeq(s, 1, SetMin(hits) - 1)>>
                 \o Split(SubSeq(s, SetMin(hits) + 1, Len(s)), c)

\* c.join(parts)
RECURSIVE Join(_, _)
Join(parts, c) ==
    IF Len(parts) = 0 THEN <<>>
    ELSE IF Len(parts) = 1 THEN parts[1]
    ELSE parts[1] \o <<c>> \o Join(Tail(parts), c)

UpperCase ==
    <<"A", "B", "C", "D", "E", "F", "G", "H", "I", "J", "K", "L", "M",
      "N", "O", "P", "Q", "R", "S", "T", "U", "V", "W", "X", "Y", "Z">>
LowerCase ==
    <<"a", "b", "c", "d", "e", "f", "g", "h", "i", "j", "k", "l", "m",
      "n", "o", "p", "q", "r", "s", "t", "u", "v", "w", "x", "y", "z">>

\* str.lower()
Lower(s) ==
    [i \in 1..Len(s) |->
        IF \E j \in 1..26 : UpperCase[j] = s[i]
        THEN LowerCase[CHOOSE j \in 1..26 : UpperCase[j] = s[i]]
        ELSE s[i]]

Whitespace == {" "}
Digits == <<"0", "1", "2", "3", "4", "5", "6", "7", "8", "9">>
DigitChars == {Digits[i] : i \in 1..10}
DigitVal(c) == (CHOOSE i \in 1..10 : Digits[i] = c) - 1

\* int(s) for a str s: surrounding whitespace is ignored, then decimal digits;
\* -1 stands for ValueError (no version component is negative)
RECURSIVE DigitsVal(_)
DigitsVal(s) ==
    IF Len(s) = 0 THEN 0
    ELSE 10 * DigitsVal(SubSeq(s, 1, Len(s) - 1)) + DigitVal(s[Len(s)])

int(s) ==
    LET t == Strip(s, Whitespace)
    IN  IF Len(t) > 0 /\ \A i \in 1..Len(t) : t[i] \in DigitChars
        THEN DigitsVal(t) ELSE -1

-----------------------------------------------------------------------------
(* Python values *)

PyInt(n) == [k |-> "int", v |-> n]
PyFloat(n) == [k |-> "float", v |-> n]        \* the float n.0
PyStr(s) == [k |-> "str", v |-> s]
PyNone == [k |-> "none", v |-> 0]
PyBytes(b) == [k |-> "bytes", v |-> b]        \* b: sequence of 0..255
PyComplex(re, im) == [k |-> "complex", v |-> <<re, im>>]
PyList(s) == [k |-> "list", v |-> s]
PyTuple(s) == [k |-> "tuple", v |-> s]
PySet(s) == [k |-> "set", v |-> s]            \* s: the members in iteration order
PyDict(kvs) == [k |-> "dict", v |-> kvs]      \* kvs: <<[key, val], ...>> in insertion order
\* any other object: its identity id(obj) = addr, its class name, the capabilities
\* the code probes with hasattr/callable, and what it holds: what its conversion
\* method returns, or <<self, function name>> for a bound method
PyObj(oid, addr, cls, caps, held) ==
    [k |-> "obj", v |-> [oid |-> oid, addr |-> addr, cls |-> cls, caps |-> caps, held |-> held]]
\* numpy.ndarray of dtype uint8: its shape and its elements in C order
PyNdarray(shape, data) == [k |-> "ndarray", v |-> [shape |-> shape, data |-> data]]
PyNode(url) == [k |-> "node", v |-> url]      \* client.RPCNode bound to url
Item(key, val) == [key |-> key, val |-> val]

\* a raised exception: its class and which raise statement it came from
Raised(exc, msg) == [k |-> "error", v |-> [exc |-> exc, msg |-> msg]]
IsError(x) == x.k = "error"

\* the first exception raised while mapping over a sequence, if any
FirstError(seq) ==
    LET bad == {i \in 1..Len(seq) : IsError(seq[i])}
    IN  IF bad = {} THEN PyNone ELSE seq[SetMin(bad)]
HasError(seq) == \E i \in 1..Len(seq) : IsError(seq[i])

HasKey(d, key) == \E i \in 1..Len(d.v) : d.v[i].key = key
\* d[key], for a dict d that has the key
GetItem(d, key) == d.v[CHOOSE i \in 1..Len(d.v) : d.v[i].key = key].val

\* hash(x) succeeds
RECURSIVE Hashable(_)
Hashable(x) ==
    IF x.k \in {"list", "dict", "set"} THEN FALSE
    ELSE IF x.k = "tuple" THEN \A i \in 1..Len(x.v) : Hashable(x.v[i])
    ELSE TRUE

\* a == b in Python
RECURSIVE PyEq(_, _)
PyEq(a, b) ==
    IF a.k \in {"int", "float"} /\ b.k \in {"int", "float"} THEN a.v = b.v
    ELSE IF a.k # b.k THEN FALSE
    ELSE IF a.k \in {"list", "tuple"}
        THEN Len(a.v) = Len(b.v) /\ \A i \in 1..Len(a.v) : PyEq(a.v[i], b.v[i])
    ELSE IF a.k = "set"
        THEN /\ \A i \in 1..Len(a.v) : \E j \in 1..Len(b.v) : PyEq(a.v[i], b.v[j])
             /\ \A j \in 1..Len(b.v) : \E i \in 1..Len(a.v) : PyEq(a.v[i], b.v[j])
    ELSE IF a.k = "dict"
        THEN /\ \A i \in 1..Len(a.v) : HasKey(b, a.v[i].key)
                    /\ PyEq(a.v[i].val, GetItem(b, a.v[i].key))
             /\ \A j \in 1..Len(b.v) : HasKey(a, b.v[j].key)
    ELSE a.v = b.v

\* set(seq): the distinct members of seq, first occurrences kept
RECURSIVE Dedup(_)
Dedup(seq) ==
    IF Len(seq) = 0 THEN <<>>
    ELSE LET front == Dedup(SubSeq(seq, 1, Len(seq) - 1))
             final == seq[Len(seq)]
         IN  IF \E i \in 1..Len(front) : PyEq(front[i], final)
             THEN front ELSE Append(front, final)

-----------------------------------------------------------------------------
(* base64 (standard alphabet, '=' padding), on sequences of bytes *)

B64Alphabet ==
    <<"A", "B", "C", "D", "E", "F", "G", "H", "I", "J", "K", "L", "M", "N", "O", "P",
      "Q", "R", "S", "T", "U", "V", "W", "X", "Y", "Z", "a", "b", "c", "d", "e", "f",
      "g", "h", "i", "j", "k", "l", "m", "n", "o", "p", "q", "r", "s", "t", "u", "v",
      "w", "x", "y", "z", "0", "1", "2", "3", "4", "5", "6", "7", "8", "9", "+", "/">>
B64Chars == {B64Alphabet[i] : i \in 1..64}
B64Char(n) == B64Alphabet[n + 1]
B64Index(c) == (CHOOSE i \in 1..64 : B64Alphabet[i] = c) - 1

\* base64.b64encode(b).decode('ascii')
RECURSIVE b64encode(_)
b64encode(b) ==
    IF Len(b) = 0 THEN <<>>
    ELSE LET n == IF Len(b) < 3 THEN Len(b) ELSE 3
             bits == b[1] * 65536 + (IF n >= 2 THEN b[2] ELSE 0) * 256
                         + (IF n = 3 THEN b[3] ELSE 0)
         IN  << B64Char(bits \div 262144),
                B64Char((bits \div 4096) % 64),
                IF n >= 2 THEN B64Char((bits \div 64) % 64) ELSE "=",
                IF n = 3 THEN B64Char(bits % 64) ELSE "=" >>
             \o b64encode(SubSeq(b, n + 1, Len(b)))

\* one group of four characters; <<-1>> stands for binascii.Error
B64Quad(q, final) ==
    LET pads == {i \in 1..4 : q[i] = "="}
        i1 == B64Index(q[1])
        i2 == B64Index(q[2])
    IN  IF pads = {} THEN
            LET bits == i1 * 262144 + i2 * 4096 + B64Index(q[3]) * 64 + B64Index(q[4])
            IN  <<bits \div 65536, (bits \div 256) % 256, bits % 256>>
        ELSE IF final /\ pads = {4} THEN
            LET bits == i1 * 262144 + i2 * 4096 + B64Index(q[3]) * 64
            IN  <<bits \div 65536, (bits \div 256) % 256>>
        ELSE IF final /\ pads = {3, 4} THEN <<(i1 * 262144 + i2 * 4096) \div 65536>>
        ELSE <<-1>>

RECURSIVE B64Quads(_)
B64Quads(s) ==
    IF Len(s) = 0 THEN <<>>
    ELSE LET head == B64Quad(SubSeq(s, 1, 4), Len(s) = 4)
             rest == B64Quads(SubSeq(s, 5, Len(s)))
         IN  IF head = <<-1>> \/ rest = <<-1>> THEN <<-1>> ELSE head \o rest

\* base64.b64decode(s.encode('ascii')): characters outside the alphabet are
\* discarded, then the padding must be right
b64decode(s) ==
    LET t == SelectSeq(s, LAMBDA c : c \in B64Chars \cup {"="})
        b == IF Len(t) % 4 # 0 THEN <<-1>> ELSE B64Quads(t)
    IN  IF b = <<-1>> THEN Raised("binascii.Error", "incorrect padding") ELSE PyBytes(b)

-----------------------------------------------------------------------------
(* pyrpc/util.py *)

\* the compiled-in version, MARSHAL_VERSION
MARSHAL_VERSION == <<0, 1>>

\* str(n) for a number 0..99
str(n) == IF n < 10 THEN <<Digits[n + 1]>> ELSE <<Digits[(n \div 10) + 1], Digits[(n % 10) + 1]>>

encode_version(ver) == Join([i \in 1..Len(ver) |-> str(ver[i])], ".")

\* decode_version(v): v.strip('.').split('.') mapped through int(); a str v only.
\* <<-1>> stands for the ValueError int() raises
decode_version(s) ==
    LET parts == Split(Strip(s, {"."}), ".")
        nums == [i \in 1..Len(parts) |-> int(parts[i])]
    IN  IF \E i \in 1..Len(nums) : nums[i] = -1 THEN <<-1>> ELSE nums

map_values(fn(_), d) == [i \in 1..Len(d.v) |-> Item(d.v[i].key, fn(d.v[i].val))]

-----------------------------------------------------------------------------
(* pyrpc/marshal.py *)

MARSHAL_VERSION_STR == encode_version(MARSHAL_VERSION)

\* a slip: the type hint is left out
wrapped_untagged(ty, data, kwargs) == PyDict(<<Item(Lit.data, data)>> \o kwargs)

\* a slip: the value goes out bare
wrapped_bare(ty, data, kwargs) == data

wrapped(ty, data, kwargs) == PyDict(<<Item(Lit.type, PyStr(ty)), Item(Lit.data, data)>> \o kwargs)

\* ref_factory: None, the callback of the tests (returns one url), or
\* RPCServer.make_ref (the url of the object's identity)
NoFactory == [kind |-> "none"]
ConstFactory(url) == [kind |-> "const", url |-> url]

Hex == <<"0", "1", "2", "3", "4", "5", "6", "7", "8", "9", "a", "b", "c", "d", "e", "f">>
\* f"{n:x}"
RECURSIVE hex(_)
hex(n) == IF n < 16 THEN <<Hex[n + 1]>> ELSE hex(n \div 16) \o <<Hex[(n % 16) + 1]>>

\* a slip: the url without its closing slash
make_ref_url_noslash(obj) == <<"/", "i", "d", "/">> \o hex(obj.v.addr)

\* the url make_ref returns for obj: f"/id/{id(obj):x}/"
make_ref_url(obj) == <<"/", "i", "d", "/">> \o hex(obj.v.addr) \o <<"/">>

\* a slip: the callback's result is dropped for the url of the object's identity
ref_factory_call_ignored(ref_factory, obj) == make_ref_url(obj)

ref_factory_call(ref_factory, obj) ==
    IF ref_factory.kind = "const" THEN ref_factory.url ELSE make_ref_url(obj)

\* list(x), for the values the code iterates over; a TypeError otherwise
Iterate(x) ==
    IF x.k \in {"list", "tuple", "set"} THEN PyList(x.v)
    ELSE IF x.k = "str" THEN PyList([i \in 1..Len(x.v) |-> PyStr(<<x.v[i]>>)])
    ELSE IF x.k = "dict" THEN PyList([i \in 1..Len(x.v) |-> PyStr(x.v[i].key)])
    ELSE IF x.k = "bytes" THEN PyList([i \in 1..Len(x.v) |-> PyInt(x.v[i])])
    ELSE Raised("TypeError", "not iterable")

RECURSIVE Product(_)
Product(dims) == IF Len(dims) = 0 THEN 1 ELSE dims[1] * Product(Tail(dims))

\* numpy.lib.format.write_array: a header giving the shape, then the elements
write_array(arr) == <<Len(arr.v.shape)>> \o arr.v.shape \o arr.v.data

\* numpy.lib.format.read_array
read_array(b) ==
    IF Len(b) = 0 \/ Len(b) < 1 + b[1] THEN Raised("ValueError", "npy header")
    ELSE LET shape == SubSeq(b, 2, 1 + b[1])
             data == SubSeq(b, 2 + b[1], Len(b))
         IN  IF Len(data) # Product(shape) THEN Raised("ValueError", "npy data")
             ELSE PyNdarray(shape, data)

marshal_ndarray(arr) ==
    wrapped(Lit.ndarray, PyStr(b64encode(write_array(arr))),
            <<Item(Lit.shape, PyTuple([i \in 1..Len(arr.v.shape) |-> PyInt(arr.v.shape[i])])),
              Item(Lit.size, PyInt(Product(arr.v.shape)))>>)

unmarshal_ndarray(obj) ==
    IF GetItem(obj, Lit.data).k # "str" THEN Raised("AttributeError", "encode")
    ELSE LET binary == b64decode(GetItem(obj, Lit.data).v)
         IN  IF IsError(binary) THEN binary ELSE read_array(binary.v)

\* hasattr(obj, name), for the names marshal_obj probes
\* a slip: __float__ is not probed
hasattr_but_float(obj, name) == obj.k = "obj" /\ name \in obj.v.caps \ {"__float__"}

hasattr(obj, name) ==
    IF obj.k = "obj" THEN name \in obj.v.caps
    ELSE \/ name = "__float__" /\ obj.k \in {"int", "float", "ndarray"}
         \/ name = "__iter__"
                /\ obj.k \in {"str", "bytes", "list", "tuple", "set", "dict", "ndarray"}

RECURSIVE marshal_obj(_, _)
marshal_obj(obj, ref_factory) ==
    LET recur(x) == marshal_obj(x, ref_factory)
    IN  IF obj.k \in {"float", "int", "str", "none"} THEN obj
        ELSE IF obj.k = "complex"
            THEN wrapped(Lit.complex, PyTuple(<<PyFloat(obj.v[1]), PyFloat(obj.v[2])>>), <<>>)
        ELSE IF obj.k = "ndarray" THEN marshal_ndarray(obj)
        ELSE IF hasattr(obj, "__float__") THEN
            IF obj.v.held.k \in {"int", "float"} THEN PyFloat(obj.v.held.v)
            ELSE Raised("TypeError", "__float__ returned non-float")
        ELSE IF obj.k = "bytes" THEN wrapped(Lit.bytes, PyStr(b64encode(obj.v)), <<>>)
        ELSE IF obj.k = "dict" \/ hasattr(obj, "to_dict") THEN
            LET d == IF hasattr(obj, "to_dict") THEN obj.v.held ELSE obj
            IN  IF d.k # "dict" THEN Raised("AttributeError", "items")
                ELSE LET inner == map_values(recur, d)
                         vals == [i \in 1..Len(inner) |-> inner[i].val]
                     IN  IF HasError(vals) THEN FirstError(vals)
                         ELSE wrapped(Lit.dict, PyDict(inner), <<>>)
        ELSE IF obj.k = "set" \/ hasattr(obj, "to_set") THEN
            LET s == Iterate(IF hasattr(obj, "to_set") THEN obj.v.held ELSE obj)
                inner == [i \in 1..Len(s.v) |-> recur(s.v[i])]
            IN  IF IsError(s) THEN s
                ELSE IF HasError(inner) THEN FirstError(inner)
                ELSE wrapped(Lit.set, PyList(inner), <<>>)
        ELSE IF obj.k \in {"list", "tuple"} \/ hasattr(obj, "__iter__") THEN
            LET s == Iterate(IF obj.k = "obj" THEN obj.v.held ELSE obj)
                inner == [i \in 1..Len(s.v) |-> recur(s.v[i])]
            IN  IF IsError(s) THEN s
                ELSE IF HasError(inner) THEN FirstError(inner)
                ELSE IF obj.k = "tuple" THEN wrapped(Lit.tuple, PyList(inner), <<>>)
                ELSE PyList(inner)
        ELSE IF ref_factory.kind = "none" THEN Raised("TypeError", "Unsupported type")
        ELSE PyDict(<<Item(Lit.type, PyStr(Lit.ref)),
                      Item(Lit.url, PyStr(ref_factory_call(ref_factory, obj))),
                      Item(Lit.class, PyStr(obj.v.cls))>>)

\* node_factory: None, or client.make_node bound to a connection
NoNodes == [kind |-> "none"]
MakeNode == [kind |-> "make_node"]

\* complex(*data)
make_complex(data) ==
    LET it == Iterate(data)
        num(x) == x.k \in {"int", "float"}
    IN  IF IsError(it) THEN it
        ELSE IF Len(it.v) = 0 THEN PyComplex(0, 0)
        ELSE IF Len(it.v) = 1 /\ num(it.v[1]) THEN PyComplex(it.v[1].v, 0)
        ELSE IF Len(it.v) = 2 /\ num(it.v[1]) /\ num(it.v[2])
            THEN PyComplex(it.v[1].v, it.v[2].v)
        ELSE Raised("TypeError", "complex() arguments")

unmarshal_ref(obj, node_factory) ==
    IF node_factory.kind = "none" THEN
        IF HasKey(obj, Lit.class) THEN Raised("TypeError", "Unsupported type")
        ELSE Raised("KeyError", "class")
    ELSE IF ~HasKey(obj, Lit.url) THEN Raised("KeyError", "url")
    ELSE IF ~HasKey(obj, Lit.class) THEN Raised("KeyError", "class")
    ELSE IF GetItem(obj, Lit.url).k # "str" THEN Raised("TypeError", "url is not a str")
    ELSE PyNode(GetItem(obj, Lit.url).v)

UNMARSHAL_MAP == {Lit.dict, Lit.tuple, Lit.set, Lit.ndarray, Lit.complex, Lit.bytes, Lit.ref}

RECURSIVE unmarshal_obj(_, _)
unmarshal_obj(obj, node_factory) ==
    LET recur(x) == unmarshal_obj(x, node_factory)
        each(seq) == [i \in 1..Len(seq) |-> recur(seq[i])]
    IN  IF obj.k \in {"int", "float", "str", "none"} THEN obj
        ELSE IF obj.k \in {"list", "tuple", "bytes"} THEN
            LET inner == each(Iterate(obj).v)
            IN  IF HasError(inner) THEN FirstError(inner) ELSE PyList(inner)
        ELSE IF obj.k # "dict" THEN Raised("TypeError", "Unknown json type")
        ELSE IF ~HasKey(obj, Lit.type) THEN Raised("KeyError", "type")
        ELSE IF ~Hashable(GetItem(obj, Lit.type)) THEN Raised("TypeError", "unhashable type")
        ELSE IF GetItem(obj, Lit.type).k # "str" \/ GetItem(obj, Lit.type).v \notin UNMARSHAL_MAP
            \* "Unknown type annotation {ty}" is a plain string, no f-string
            THEN Raised("ValueError", Lit.unknown_type)
        ELSE IF GetItem(obj, Lit.type).v = Lit.ref THEN unmarshal_ref(obj, node_factory)
        ELSE IF ~HasKey(obj, Lit.data) THEN Raised("KeyError", "data")
        ELSE LET ty == GetItem(obj, Lit.type).v
                 data == GetItem(obj, Lit.data)
             IN  IF ty = Lit.dict THEN
                     IF data.k # "dict" THEN Raised("AttributeError", "items")
                     ELSE LET inner == map_values(recur, data)
                              vals == [i \in 1..Len(inner) |-> inner[i].val]
                          IN  IF HasError(vals) THEN FirstError(vals) ELSE PyDict(inner)
                 ELSE IF ty \in {Lit.tuple, Lit.set} THEN
                     IF IsError(Iterate(data)) THEN Iterate(data)
                     ELSE LET inner == each(Iterate(data).v)
                          IN  IF HasError(inner) THEN FirstError(inner)
                              ELSE IF ty = Lit.tuple THEN PyTuple(inner)
                              ELSE IF \E i \in 1..Len(inner) : ~Hashable(inner[i])
                                  THEN Raised("TypeError", "unhashable type")
                              ELSE PySet(Dedup(inner))
                 ELSE IF ty = Lit.ndarray THEN unmarshal_ndarray(obj)
                 ELSE IF ty = Lit.complex THEN make_complex(data)
                 ELSE IF data.k # "str" THEN Raised("AttributeError", "encode")
                 ELSE b64decode(data.v)

marshal(obj, ref_factory) ==
    LET data == marshal_obj(obj, ref_factory)
    IN  IF IsError(data) THEN data
        ELSE PyDict(<<Item(Lit.ver, PyStr(MARSHAL_VERSION_STR)), Item(Lit.data, data)>>)

unmarshal(obj, node_factory) ==
    IF obj.k # "dict" THEN Raised("TypeError", "Expected a dict")
    ELSE IF ~HasKey(obj, Lit.ver) THEN Raised("ValueError", "Could not decode protocol version info.")
    ELSE IF GetItem(obj, Lit.ver).k = "bytes" THEN Raised("TypeError", "a bytes-like object is required")
    ELSE IF GetItem(obj, Lit.ver).k # "str" THEN Raised("AttributeError", "strip")
    ELSE IF decode_version(GetItem(obj, Lit.ver).v) = <<-1>> \/ ~HasKey(obj, Lit.data)
        THEN Raised("ValueError", "Could not decode protocol version info.")
    ELSE IF decode_version(GetItem(obj, Lit.ver).v) # MARSHAL_VERSION
        THEN Raised("ValueError", "Unsupported protocol version")
    ELSE unmarshal_obj(GetItem(obj, Lit.data), node_factory)

\* json.dump then json.loads, as marshal_to_str and unmarshal_from_str do: a JSON
\* text is kept as the object json.loads makes of it.  Tuples come back as lists.
RECURSIVE json_dump(_)
json_dump(x) ==
    IF x.k \in {"int", "float", "str", "none"} THEN x
    ELSE IF x.k \in {"list", "tuple"} THEN
        LET inner == [i \in 1..Len(x.v) |-> json_dump(x.v[i])]
        IN  IF HasError(inner) THEN FirstError(inner) ELSE PyList(inner)
    ELSE IF x.k = "dict" THEN
        LET inner == [i \in 1..Len(x.v) |-> Item(x.v[i].key, json_dump(x.v[i].val))]
            vals == [i \in 1..Len(inner) |-> inner[i].val]
        IN  IF HasError(vals) THEN FirstError(vals) ELSE PyDict(inner)
    ELSE Raised("TypeError", "not JSON serializable")

\* a request or response body that is not JSON text
BadText == [k |-> "text", v |-> <<"n", "o", "p", "e">>]

json_loads(s) == IF s.k = "text" THEN Raised("JSONDecodeError", "Expecting value") ELSE s

marshal_to_str(obj, ref_factory) ==
    LET m == marshal(obj, ref_factory)
    IN  IF IsError(m) THEN m ELSE json_dump(m)

unmarshal_from_str(s, node_factory) ==
    LET obj == json_loads(s)
    IN  IF IsError(obj) THEN obj ELSE unmarshal(obj, node_factory)

-----------------------------------------------------------------------------
(* The values handed to marshal, and the objects handed to unmarshal *)

\* the instance of test_marshal_ref: no by-value encoding applies to it
TestObject == PyObj(1, 171, Lit.TestType, {}, PyNone)

Scalars ==
    { PyInt(5), PyStr(<<"T", " ", "s">>), PyNone, PyBytes(<<0, 5, 8, 255>>), PyComplex(1, -1) }

ByteStrings == { PyBytes(<<>>), PyBytes(<<255>>), PyBytes(<<250, 7>>), PyBytes(<<1, 2, 3, 4, 5>>) }

Siblings == { PyInt(1), PyBytes(<<7>>) }

\* the containers that hold x, alone or beside a sibling
Around(x) ==
    { PyList(<<x>>), PyTuple(<<x>>), PyDict(<<Item(<<"a">>, x)>>) }
    \cup { PyList(<<x, s>>) : s \in Siblings }
    \cup { PyTuple(<<s, x>>) : s \in Siblings }
    \cup { PyDict(<<Item(<<"a">>, s), Item(<<"b">>, x)>>) : s \in Siblings }
    \cup (IF Hashable(x)
          THEN {PySet(<<x>>)}
                   \cup { PySet(<<x, s>>) : s \in {y \in Siblings : ~PyEq(x, y)} }
                   \cup { PySet(<<s, x>>) : s \in {y \in Siblings : ~PyEq(x, y)} }
          ELSE {})

RECURSIVE ValuesOfDepth(_)
ValuesOfDepth(d) ==
    IF d = 0
    THEN Scalars \cup ByteStrings
             \cup {PyList(<<>>), PyTuple(<<>>), PySet(<<>>), PyDict(<<>>), TestObject}
    ELSE LET below == ValuesOfDepth(d - 1)
         IN  below \cup UNION { Around(x) : x \in below }

\* values more than one rule of marshal_obj could take: objects with several of
\* __float__, to_dict, to_set and __iter__, and an ndarray
Capable ==
    { PyObj(1, 171, Lit.TestType, {"__float__", "__iter__"}, PyInt(3)),
      PyObj(1, 171, Lit.TestType, {"__float__", "to_dict"}, PyInt(2)),
      PyObj(1, 171, Lit.TestType, {"to_dict", "to_set"}, PyDict(<<Item(<<"a">>, PyInt(1))>>)),
      PyObj(1, 171, Lit.TestType, {"to_dict", "__iter__"}, PyDict(<<Item(<<"a">>, PyInt(1))>>)),
      PyObj(1, 171, Lit.TestType, {"to_set", "__iter__"}, PyList(<<PyInt(1), PyInt(2)>>)),
      PyObj(1, 171, Lit.TestType, {"__iter__"}, PyList(<<PyInt(1), PyInt(2)>>)),
      PyNdarray(<<2>>, <<1, 2>>) }

Values == ValuesOfDepth(MaxDepth) \cup Capable

\* only kinds that marshal encodes by value: no object reaches the reference fallback
RECURSIVE ByValue(_)
ByValue(x) ==
    IF x.k \in {"list", "tuple", "set"} THEN \A i \in 1..Len(x.v) : ByValue(x.v[i])
    ELSE IF x.k = "dict" THEN \A i \in 1..Len(x.v) : ByValue(x.v[i].val)
    ELSE x.k # "obj"

VersionChars == {"0", "1", ".", " ", "x"}

RECURSIVE StringsUpTo(_)
StringsUpTo(n) ==
    IF n = 0 THEN {<<>>}
    ELSE LET shorter == StringsUpTo(n - 1)
         IN  shorter \cup { Append(s, c) : s \in {x \in shorter : Len(x) = n - 1}, c \in VersionChars }

\* what a received 'v' may be: absent, a str, or another JSON value
VersionFields ==
    { <<>> } \cup { <<Item(Lit.ver, PyStr(s))>> : s \in StringsUpTo(MaxVerLen) }
             \cup { <<Item(Lit.ver, x)>> : x \in {PyInt(1), PyNone, PyList(<<PyInt(0), PyInt(1)>>)} }

\* payloads with a tag UNMARSHAL_MAP does not have, at the top, in an array and
\* in a tagged dict inside a tagged tuple
UnknownTagged ==
    LET bogus == PyDict(<<Item(Lit.type, PyStr(Lit.bogus)), Item(Lit.data, PyInt(1))>>)
    IN  { bogus,
          PyList(<<PyInt(1), bogus>>),
          wrapped(Lit.tuple,
                  PyList(<<wrapped(Lit.dict, PyDict(<<Item(<<"a">>, bogus)>>), <<>>)>>), <<>>) }

DataFields ==
    { <<>>, <<Item(Lit.data, PyInt(5))>> }
    \cup { <<Item(Lit.data, d)>> : d \in UnknownTagged }
    \cup {
      <<Item(Lit.data, marshal_obj(PyTuple(<<PyInt(1), PyBytes(<<7>>)>>), NoFactory))>> }

Received ==
    { PyInt(5), PyNone, PyStr(MARSHAL_VERSION_STR), PyList(<<PyInt(0), PyInt(1)>>) }
    \cup { PyDict(vf \o df) : vf \in VersionFields, df \in DataFields }

-----------------------------------------------------------------------------
(* The objects the server hosts.  The root object (id 0xa0) has a plain        *)
(* attribute a = 5, the methods m, fun, mk, ex and bye, an attribute p holding *)
(* a functools.partial (id 0xa1) and an attribute it holding the Item it made  *)
(* last and still references, or None.  An Item has one attribute n.  A bound  *)
(* method is a new object at every attribute access and is freed when the      *)
(* handler returns; an Item is freed when the root object releases it, and its *)
(* address may then be given to a later object.                                *)

\* the attribute names the requests use
Attr ==
    [a |-> <<"a">>,
     m |-> <<"m">>,
     fun |-> <<"f", "u", "n">>,
     mk |-> <<"m", "k">>,
     ex |-> <<"e", "x">>,
     bye |-> <<"b", "y", "e">>,
     it |-> <<"i", "t">>,
     p |-> <<"p">>,
     n |-> <<"n">>,
     zz |-> <<"z", "z">>]

RootMethods == {Attr.m, Attr.fun, Attr.mk, Attr.ex, Attr.bye}

\* the addresses the allocator hands out to Items and bound methods: room for
\* the live Items and one bound method
Addrs == 171..(171 + MaxLive)

RootObject == PyObj(1, 160, Lit.Root, {}, PyNone)
PartialObject == PyObj(2, 161, Lit.partial, {"__call__"}, PyNone)
NewItem(i, addr) == PyObj(2 + i, addr, Lit.Item, {}, PyNone)
ItemObject(i) == NewItem(i, items[i].addr)
BoundMethod(addr, self, name) ==
    PyObj(0, addr, Lit.method, {"__call__", "__name__"}, PyTuple(<<PyInt(self), PyStr(name)>>))
\* inspect.signature(obj): a Signature has __slots__ and takes no weak reference
SignatureOf(obj) == PyObj(0, 0, Lit.Signature, {}, PyNone)

LiveItems == {i \in 1..Len(items) : items[i].alive}
LiveOids == {1, 2} \cup {2 + i : i \in LiveItems}
FreeAddrs == Addrs \ {items[i].addr : i \in LiveItems}
ObjectOf(oid) ==
    IF oid = 1 THEN RootObject ELSE IF oid = 2 THEN PartialObject ELSE ItemObject(oid - 2)

\* getattr(obj, name); tmp is where a bound method made by the access is allocated
getattr(obj, name, tmp) ==
    IF obj.k = "obj" /\ obj.v.cls = Lit.Root THEN
        IF name \in RootMethods THEN BoundMethod(tmp, obj.v.oid, name)
        ELSE IF name = Attr.a THEN PyInt(5)
        ELSE IF name = Attr.p THEN PartialObject
        ELSE IF name = Attr.it
            THEN IF LiveItems = {} THEN PyNone ELSE ItemObject(SetMax(LiveItems))
        ELSE Raised("AttributeError", "no attribute")
    ELSE IF obj.k = "obj" /\ obj.v.cls = Lit.Item /\ name = Attr.n THEN PyInt(obj.v.oid)
    ELSE Raised("AttributeError", "no attribute")

callable(obj) == obj.k = "obj" /\ "__call__" \in obj.v.caps

\* obj(*args, **kwargs) for a bound method of the root object:
\*   def m(self, *args, **kwargs): return (args, kwargs)
\*   def fun(self): return 10
\*   def mk(self): make an Item, keep it in self.it and return it
\*   def ex(self): raise ValueError
\*   def bye(self): raise SystemExit
\* outcome "raise" is an Exception, "exit" a BaseException that is no Exception
Invoke(obj, args, kwargs, i, addr) ==
    LET name == obj.v.held.v[2].v
    IN  IF obj.v.cls # Lit.method THEN [outcome |-> "return", value |-> PyNone, made |-> FALSE]
        ELSE IF name = Attr.m
            THEN [outcome |-> "return", value |-> PyTuple(<<PyTuple(args), kwargs>>), made |-> FALSE]
        ELSE IF Len(args) > 0 \/ Len(kwargs.v) > 0
            THEN [outcome |-> "raise", value |-> Raised("TypeError", "arguments"), made |-> FALSE]
        ELSE IF name = Attr.fun THEN [outcome |-> "return", value |-> PyInt(10), made |-> FALSE]
        ELSE IF name = Attr.mk THEN [outcome |-> "return", value |-> NewItem(i, addr), made |-> TRUE,
                                  item |-> [addr |-> addr, alive |-> TRUE]]
        ELSE IF name = Attr.ex
            THEN [outcome |-> "raise", value |-> Raised("ValueError", "ex"), made |-> FALSE]
        ELSE [outcome |-> "exit", value |-> Raised("SystemExit", "bye"), made |-> FALSE]

-----------------------------------------------------------------------------
(* pyrpc/server.py *)

RPCError(status, kind, named, trace) ==
    [status |-> status, kind |-> kind, named |-> named, trace |-> trace]
NoError == RPCError(0, "none", <<>>, FALSE)

not_found_error(endpoint) == RPCError(404, "not found", endpoint, FALSE)
\* a slip: the traceback is left out
call_error_no_trace(endpoint, exc_info) == RPCError(400, "error calling", endpoint, FALSE)
call_error(endpoint, exc_info) ==
    RPCError(400, "error calling", endpoint, exc_info # PyNone)
\* a slip: the wrong error is raised
not_callable_error_as_not_found(endpoint) == RPCError(404, "not found", endpoint, FALSE)
not_callable_error(endpoint) == RPCError(400, "not callable", endpoint, FALSE)
\* an exception that is no HTTPError leaves the handler: the transport answers 500
Unhandled == RPCError(500, "unhandled", <<>>, FALSE)

\* RPCServer.make_ref: refs[f"{id(obj):x}"] = weakref.ref(obj).  A bound method is
\* gone when the handler returns: its weakref is recorded as dead (0).
\* a slip: the entries of dead objects are dropped at every insert
make_ref_evicting(table, obj) ==
    [x \in {y \in DOMAIN table : table[y] \in LiveOids} \cup {hex(obj.v.addr)} |->
        IF x = hex(obj.v.addr) THEN obj.v.oid ELSE table[x]]

\* a slip: the table is made anew at every insert
make_ref_alone(table, obj) == [x \in {hex(obj.v.addr)} |-> obj.v.oid]

\* a slip: the url is made and the entry is not stored
make_ref_unkeyed(table, obj) == table

make_ref(table, obj) ==
    [x \in (DOMAIN table) \cup {hex(obj.v.addr)} |->
        IF x = hex(obj.v.addr) THEN obj.v.oid ELSE table[x]]

MakeRef == [kind |-> "make_ref"]

\* the objects marshal_obj hands to ref_factory, in the order it reaches them
RECURSIVE RefObjects(_)
RECURSIVE RefObjectsOfSeq(_)
RefObjectsOfSeq(seq) ==
    IF Len(seq) = 0 THEN <<>> ELSE RefObjects(seq[1]) \o RefObjectsOfSeq(Tail(seq))
RefObjects(x) ==
    IF x.k \in {"list", "tuple", "set"} THEN RefObjectsOfSeq(x.v)
    ELSE IF x.k = "dict" THEN RefObjectsOfSeq([i \in 1..Len(x.v) |-> x.v[i].val])
    ELSE IF x.k # "obj" \/ hasattr(x, "__float__") THEN <<>>
    ELSE IF hasattr(x, "to_dict") \/ hasattr(x, "to_set") \/ hasattr(x, "__iter__")
        THEN RefObjects(x.v.held)
    ELSE <<x>>

RECURSIVE make_refs(_, _)
make_refs(table, objs) ==
    IF Len(objs) = 0 THEN table ELSE make_refs(make_ref(table, objs[1]), Tail(objs))

\* RPCHandler.get_endpoint, lines 160-170: take components[i], components[i+1], ...
RECURSIVE walk(_, _, _, _)
walk(obj, components, i, tmp) ==
    IF i > Len(components) THEN [err |-> NoError, obj |-> obj, at |-> 0]
    ELSE LET component == components[i]
             consumed == Join(SubSeq(components, 1, i), "/")
             cur == IF component = Lit.sig THEN SignatureOf(obj) ELSE obj
             next == getattr(cur, component, tmp)
         IN  IF (component = Lit.sig /\ ~callable(obj)) \/ IsError(next)
             THEN [err |-> not_found_error(consumed), obj |-> PyNone, at |-> i]
             ELSE walk(next, components, i + 1, tmp)

\* RPCHandler.get_endpoint.  start: the object the walk began at; failedAt: the
\* index, in the components of the whole path, of the segment that failed
Walked(w, start, skipped) ==
    [err |-> w.err, obj |-> w.obj, start |-> start,
     failedAt |-> IF w.at = 0 THEN 0 ELSE w.at + skipped]

Components(endpoint) ==
    LET split == Split(Strip(endpoint, {"/"}), "/")
    IN  IF split = << <<>> >> THEN <<>> ELSE split

get_endpoint_of(components, tmp) ==
    IF Len(components) > 0 /\ components[1] = Lit.id THEN
        IF Len(components) = 1
        THEN [err |-> not_found_error(<<"/", "i", "d">>), obj |-> PyNone,
              start |-> 0, failedAt |-> 1]
        ELSE IF Lower(components[2]) \notin DOMAIN refs
                \/ refs[Lower(components[2])] \notin LiveOids
        THEN [err |-> not_found_error(<<"/", "i", "d", "/">> \o components[2]),
              obj |-> PyNone, start |-> 0, failedAt |-> 2]
        \* components = components[2:]
        ELSE Walked(walk(ObjectOf(refs[Lower(components[2])]),
                         SubSeq(components, 3, Len(components)), 1, tmp),
                    refs[Lower(components[2])], 2)
    ELSE Walked(walk(RootObject, components, 1, tmp), 1, 0)

get_endpoint(endpoint, tmp) == get_endpoint_of(Components(endpoint), tmp)

\* what a handler leaves behind: the response, the registry and the Items after
\* it, and what it did on the way (the object the path walk began at, the segment
\* it failed at, the decoded body, the calls it made and how the last one ended)
Handled(err) ==
    [status |-> err.status, kind |-> err.kind, named |-> err.named, trace |-> err.trace,
     payload |-> PyNone, refs |-> refs, items |-> items, start |-> 0, failedAt |-> 0,
     decoded |-> PyNone, calls |-> <<>>, outcome |-> "none", returned |-> PyNone,
     feasible |-> TRUE]

Failed(h, err) ==
    [h EXCEPT !.status = err.status, !.kind = err.kind, !.named = err.named,
              !.trace = err.trace]

\* weakref.ref(obj) succeeds
Weakrefable(obj) == obj.v.cls # Lit.Signature

\* the response once marshal_to_str has returned s, having called make_ref for objs
Written(h, obj, objs, s) ==
    LET bad == {i \in 1..Len(objs) : ~Weakrefable(objs[i])}
        upto == IF bad = {} THEN Len(objs) ELSE SetMin(bad) - 1
    IN  IF bad # {} \/ IsError(s)
        THEN [h EXCEPT !.status = 500, !.kind = "unhandled",
                       !.refs = make_refs(h.refs, SubSeq(objs, 1, upto))]
        ELSE [h EXCEPT !.status = 200, !.kind = "ok", !.payload = s, !.returned = obj,
                       !.refs = make_refs(h.refs, objs)]

\* RPCHandler.write_obj: marshal with make_ref as the reference factory
write_obj(h, obj) == Written(h, obj, RefObjects(obj), marshal_to_str(obj, MakeRef))

Resolved(h, r) == [h EXCEPT !.start = r.start, !.failedAt = r.failedAt]

\* RPCHandler.get, with r what get_endpoint returned or raised
get_of(r) ==
    IF r.err # NoError THEN Failed(Resolved(Handled(NoError), r), r.err)
    ELSE write_obj(Resolved(Handled(NoError), r), r.obj)

get(path, tmp) == get_of(get_endpoint(path, tmp))

\* the handler after obj(*args, **kwargs) has ended as c says
Called(h, endpoint, obj, args, kwargs, c) ==
    LET called == [h EXCEPT !.calls = <<[target |-> obj, args |-> args, kwargs |-> kwargs]>>,
                            !.outcome = c.outcome,
                            !.feasible = \/ ~c.made
                                         \/ /\ Len(items) < MaxItems
                                            /\ Cardinality(LiveItems) < MaxLive,
                            !.items = IF c.made THEN Append(items, c.item) ELSE items]
    IN  IF c.outcome = "raise" THEN Failed(called, call_error(endpoint, c.value))
        ELSE IF c.outcome = "exit" THEN [called EXCEPT !.kind = "propagated"]
        ELSE write_obj(called, c.value)

\* RPCHandler.call_endpoint(endpoint, *args, **kwargs), with r what get_endpoint
\* returned or raised; a new Item would be allocated at addr
call_endpoint_of(h, endpoint, args, kwargs, r, addr) ==
    IF r.err # NoError THEN Failed(Resolved(h, r), r.err)
    ELSE IF ~callable(r.obj) THEN Failed(Resolved(h, r), not_callable_error(endpoint))
    \* f"Calling {obj.__name__}..." is formatted before the call
    ELSE IF ~hasattr(r.obj, "__name__") THEN Failed(Resolved(h, r), Unhandled)
    ELSE Called(Resolved(h, r), endpoint, r.obj, args, kwargs,
                Invoke(r.obj, args, kwargs, Len(items) + 1, addr))

call_endpoint(h, endpoint, args, kwargs, tmp, addr) ==
    call_endpoint_of(h, endpoint, args, kwargs, get_endpoint(endpoint, tmp), addr)

\* RPCHandler.post from line 126 on, with decoded what unmarshal_from_str returned
post_of(path, decoded, tmp, addr) ==
    LET args == IF decoded.k = "dict"
                THEN IF HasKey(decoded, Lit.args) THEN GetItem(decoded, Lit.args) ELSE PyList(<<>>)
                ELSE IF decoded.k = "list" THEN decoded ELSE PyList(<<decoded>>)
        kwargs == IF decoded.k = "dict" /\ HasKey(decoded, Lit.kwargs)
                  THEN GetItem(decoded, Lit.kwargs) ELSE PyDict(<<>>)
        h == [Handled(NoError) EXCEPT !.decoded = decoded]
    IN  \* call_endpoint(path, *args, **kwargs): args must be iterable, kwargs a
        \* mapping, and no keyword may name a parameter that is already bound
        IF IsError(Iterate(args)) \/ kwargs.k # "dict" THEN Failed(h, Unhandled)
        ELSE IF HasKey(kwargs, Lit.endpoint) \/ HasKey(kwargs, Lit.self) THEN Failed(h, Unhandled)
        ELSE call_endpoint(h, path, Iterate(args).v, kwargs, tmp, addr)

\* the except clause of RPCHandler.post: only json.JSONDecodeError has the msg
\* it formats
invalid_body(decoded) ==
    IF decoded.v.exc = "JSONDecodeError"
    THEN Failed([Handled(NoError) EXCEPT !.decoded = decoded],
                RPCError(400, "invalid body", <<>>, FALSE))
    ELSE Failed([Handled(NoError) EXCEPT !.decoded = decoded], Unhandled)

post_body(path, decoded, tmp, addr) ==
    IF IsError(decoded) THEN invalid_body(decoded) ELSE post_of(path, decoded, tmp, addr)

\* RPCHandler.post; ctype is the Content-Type header, <<>> when there is none
content_type_with_params(ctype) == IF ctype = <<>> THEN Lit.json ELSE ctype

\* headers.get('Content-Type', 'application/json').split(';')[0].strip()
content_type(ctype) ==
    Strip(Split(IF ctype = <<>> THEN Lit.json ELSE ctype, ";")[1], Whitespace)

post(path, ctype, body, tmp, addr) ==
    IF content_type(ctype) \notin {Lit.json, Lit.xjson}
    THEN Failed(Handled(NoError), RPCError(415, "expected json", <<>>, FALSE))
    ELSE post_body(path, unmarshal_from_str(body, NoNodes), tmp, addr)

-----------------------------------------------------------------------------
(* pyrpc/client.py *)

\* urllib.parse.urljoin for paths without dot segments
urljoin(base, url) ==
    LET slashes == {i \in 1..Len(base) : base[i] = "/"}
    IN  IF Len(url) = 0 THEN base
        ELSE IF url[1] = "/" THEN url
        ELSE IF slashes = {} THEN url
        ELSE SubSeq(base, 1, SetMax(slashes)) \o url

\* resp.body.decode('utf-8'), None when the body is not UTF-8.  The body of an
\* error response is the text RPCHandler.write_error wrote: str(exception)
response_text(h) ==
    IF h.payload.k = "undecodable" THEN PyNone
    ELSE IF h.status = 200 THEN h.payload
    ELSE [k |-> "text", v |-> [kind |-> h.kind, named |-> h.named, trace |-> h.trace]]

\* a slip: the two errors the server sends are told apart the wrong way round
client_result_swapped(h) ==
    IF h.status = 200
    THEN IF response_text(h) = PyNone
         THEN Raised("TypeError", "UnicodeDecodeError takes exactly 5 arguments")
         ELSE unmarshal_from_str(response_text(h), MakeNode)
    ELSE IF h.status = 404 THEN Raised("TypeError", response_text(h))
    ELSE IF h.status = 400 THEN Raised("AttributeError", response_text(h))
    ELSE Raised("HTTPError", h.status)

\* what RPCConnection.get and RPCConnection.post make of a response; a request
\* that got no response has resp.error, an HTTPError, raised as any other status
client_result(h) ==
    IF h.status = 200
    THEN IF response_text(h) = PyNone
         \* UnicodeDecodeError("Couldn't decode response body.") is itself a TypeError
         THEN Raised("TypeError", "UnicodeDecodeError takes exactly 5 arguments")
         ELSE unmarshal_from_str(response_text(h), MakeNode)
    ELSE IF h.status = 404 THEN Raised("AttributeError", response_text(h))
    ELSE IF h.status = 400 THEN Raised("TypeError", response_text(h))
    ELSE Raised("HTTPError", h.status)

\* the body RPCConnection.post sends for post(endpoint, *args, **kwargs)
client_body(args, kwargs) ==
    marshal_to_str(PyDict(<<Item(Lit.args, PyTuple(args)), Item(Lit.kwargs, kwargs)>>), NoFactory)

-----------------------------------------------------------------------------
(* The server and one client: requests are handled one at a time, each handler *)
(* running to its end before the next request is read                          *)

\* the path "/" + parts joined by "/"
Path(parts) == <<"/">> \o Join(parts, "/")
IdPath(addr, rest) == Path(<<Lit.id, hex(addr)>> \o rest) \o (IF rest = <<>> THEN <<"/">> ELSE <<>>)

\* the node RPCConnection hands out first: RPCNode(connection, "/")
RootNode == [endpoint |-> <<"/">>, obj |-> 1]

NoExchange ==
    [method |-> "none", via |-> "none", path |-> <<>>, ctype |-> <<>>, body |-> PyNone,
     nodeobj |-> 0, fromRef |-> FALSE, onNode |-> FALSE, nodeLive |-> FALSE,
     nodeReg |-> FALSE,
     resolves |-> FALSE, target |-> PyNone,
     status |-> 0, kind |-> "none", named |-> <<>>, trace |-> FALSE, payload |-> PyNone,
     start |-> 0, failedAt |-> 0, decoded |-> PyNone, calls |-> <<>>, outcome |-> "none",
     result |-> PyNone]

IdleMarshal ==
    /\ mpc = "idle" /\ msrc = "none" /\ mval = PyNone /\ mrf = NoFactory /\ mnf = NoNodes
    /\ mtree = PyNone /\ mwire = PyNone /\ mout = PyNone

IdleServer ==
    /\ items = <<>>
    /\ refs = <<>>
    /\ running = TRUE
    /\ node = RootNode
    /\ last = NoExchange

\* no proxy operation yet
IdleClient ==
    cl = [pc |-> "ready", op |-> "none", endpoint |-> <<>>, name |-> <<>>, sent |-> <<>>,
          resp |-> [status |-> 0, kind |-> "none", named |-> <<>>, trace |-> FALSE,
                    payload |-> PyNone],
          result |-> PyNone]

\* no call of marshal_obj in progress
IdleWalk ==
    mrec = [pc |-> "idle", heap |-> <<>>, rf |-> NoFactory, stack |-> <<>>,
            exc |-> "none", out |-> PyNone]

Init == IdleMarshal /\ IdleServer /\ IdleClient /\ IdleWalk

\* the id a path names, <<>> for a path from the root
IdOf(path) ==
    LET c == Split(Strip(path, {"/"}), "/")
    IN  IF Len(c) >= 2 /\ c[1] = Lit.id THEN Lower(c[2]) ELSE <<>>

\* the call the path leads to makes a new object, or ends in SystemExit
Allocates(r) == r.err = NoError /\ r.obj.k = "obj" /\ r.obj.v.cls = Lit.method
                    /\ r.obj.v.held.v[2].v = Attr.mk
Exits(h) == h.kind = "propagated"

\* One request and its response.  via: "raw" for a request written by hand, else
\* the RPCNode method that sent it.  tmp: where a bound method made during the
\* path walk is allocated; addr: where an Item made by the call is allocated;
\* stop: the event loop ends when an exception gets as far as it.
Exchange(method, via, path, ctype, body) ==
    /\ running
    /\ \E tmp \in FreeAddrs :
       \E r \in {get_endpoint(path, tmp)} :
       \E addr \in (IF method = "POST" /\ Allocates(r) THEN FreeAddrs \ {tmp} ELSE {tmp}) :
       \E h \in {IF method = "GET" THEN get(path, tmp) ELSE post(path, ctype, body, tmp, addr)} :
       \E stop \in (IF Exits(h) THEN BOOLEAN ELSE {FALSE}) :
       \E result \in {IF via = "raw" THEN PyNone ELSE client_result(h)} :
           /\ h.feasible
           /\ items' = h.items
           /\ refs' = h.refs
           /\ running' = ~stop
           /\ node' = IF result.k = "node"
                      THEN [endpoint |-> result.v,
                            obj |-> h.returned.v.oid]
                      ELSE node
           /\ last' = [method |-> method, via |-> via, path |-> path, ctype |-> ctype,
                       body |-> body,
                       nodeobj |-> node.obj,
                       fromRef |-> IdOf(node.endpoint) # <<>>,
                       onNode |-> IdOf(path) # <<>> /\ IdOf(path) = IdOf(node.endpoint),
                       nodeLive |-> node.obj \in LiveOids,
                       nodeReg |-> /\ IdOf(node.endpoint) \in DOMAIN refs
                                   /\ refs[IdOf(node.endpoint)] = node.obj,
                       resolves |-> r.err = NoError,
                       target |-> r.obj,
                       status |-> h.status, kind |-> h.kind, named |-> h.named,
                       trace |-> h.trace, payload |-> h.payload, start |-> h.start,
                       failedAt |-> h.failedAt, decoded |-> h.decoded, calls |-> h.calls,
                       outcome |-> h.outcome, result |-> result]
    /\ UNCHANGED <<mvars, cl, mrec>>

\* the requests written by hand
GetPaths ==
    {Path(<<Attr.a>>), Path(<<Attr.m>>), Path(<<Attr.zz>>), Path(<<Attr.a, Attr.zz>>),
     Path(<<Attr.m, Lit.sig>>), Path(<<Attr.a, Lit.sig>>), Path(<<Lit.id>>), <<"/", "i", "d", "/", "A", "B", "/", "n">>}
    \cup {IdPath(171, rest) : rest \in {<<>>, <<Attr.n>>, <<Attr.zz>>}}

Envelope(x) == marshal_to_str(x, NoFactory)
NoKwargs == PyDict(<<>>)

\* bodies the handler decodes
GoodBodies ==
    {client_body(<<>>, NoKwargs),
     client_body(<<PyInt(1), PyStr(<<"T">>)>>, PyDict(<<Item(<<"x">>, PyInt(2))>>)),
     client_body(<<>>, PyDict(<<Item(Lit.endpoint, PyInt(1))>>)),
     Envelope(PyList(<<PyInt(1), PyInt(2)>>)),
     Envelope(PyTuple(<<PyInt(1)>>)),
     Envelope(PyInt(5))}

\* bodies it does not: no JSON, no envelope, no version, another version, an
\* unknown tag
BadBodies ==
    {BadText,
     PyInt(5),
     PyDict(<<Item(Lit.args, PyList(<<PyInt(1), PyInt(2)>>)), Item(Lit.kwargs, NoKwargs)>>),
     PyDict(<<Item(Lit.data, PyInt(5))>>),
     PyDict(<<Item(Lit.ver, PyStr(<<"0", ".", "2">>)), Item(Lit.data, PyInt(5))>>),
     PyDict(<<Item(Lit.ver, PyStr(MARSHAL_VERSION_STR)),
              Item(Lit.data, PyDict(<<Item(Lit.type, PyStr(Lit.bogus))>>))>>)}

Request(path, ctype, body) == [path |-> path, ctype |-> ctype, body |-> body]

PostRequests ==
    {Request(Path(<<Attr.m>>), <<>>, b) : b \in GoodBodies \cup BadBodies}
    \cup {Request(Path(<<Attr.m>>), c, client_body(<<>>, NoKwargs)) :
            c \in {Lit.xjson, Lit.json_utf8, Lit.text}}
    \cup {Request(Path(<<Attr.a>>), <<>>, b) :
            b \in {client_body(<<>>, NoKwargs), BadText}}
    \cup {Request(Path(<<n>>), <<>>, client_body(<<>>, NoKwargs)) :
            n \in {Attr.fun, Attr.mk, Attr.ex, Attr.bye, Attr.p, Attr.zz}}
    \cup {Request(Path(<<Attr.zz>>), Lit.text, BadText),
          Request(Path(<<Attr.fun>>), <<>>, Envelope(PyInt(5))),
          Request(IdPath(171, <<>>), <<>>, client_body(<<>>, NoKwargs))}

NodeNames == {Attr.it, Attr.n, Attr.zz}

\* a GET typed in by hand
RawGet == \E path \in GetPaths : Exchange("GET", "raw", path, <<>>, PyNone)

\* a POST typed in by hand
RawPost == \E rq \in PostRequests : Exchange("POST", "raw", rq.path, rq.ctype, rq.body)

\* RPCNode.__getattr__(name)
NodeGetAttr ==
    \E name \in NodeNames :
        Exchange("GET", "getattr", urljoin(<<"/">>, urljoin(node.endpoint, name)),
                 <<>>, PyNone)

\* RPCNode.call()
NodeCall ==
    Exchange("POST", "call", urljoin(<<"/">>, node.endpoint), Lit.json,
             client_body(<<>>, NoKwargs))

\* the root object drops its reference to an Item, which is collected
Release ==
    /\ \E i \in LiveItems : items' = [items EXCEPT ![i].alive = FALSE]
    /\ UNCHANGED <<refs, running, node, last>>
    /\ UNCHANGED <<mvars, cl, mrec>>

Next == RawGet \/ RawPost \/ NodeGetAttr \/ NodeCall \/ Release

Spec == Init /\ [][Next]_vars

-----------------------------------------------------------------------------
(* The client alone: one operation on an RPCNode, and any response to it *)

\* the endpoints a proxy is bound to: the root, a reference url as make_ref
\* writes it, and two a caller gave RPCNode without a closing "/"
ClientEndpoints ==
    {<<"/">>, IdPath(171, <<>>), Path(<<Lit.id, hex(171)>>), Path(<<Attr.it>>)}

\* the methods class RPCConnection defines
RPCConnectionMethods == {"__init__", "headers", "make_request", "fetch", "get", "post"}

\* the responses a request may get: the bodies write_obj and write_error write,
\* bodies of another server, and no response at all (599)
Responses ==
    LET R(status, kind, named, trace, payload) ==
            [status |-> status, kind |-> kind, named |-> named, trace |-> trace,
             payload |-> payload]
        Undecodable == [k |-> "undecodable", v |-> 0]
    IN  {R(200, "ok", <<>>, FALSE, b) :
            b \in {marshal_to_str(PyInt(5), MakeRef),
                   marshal_to_str(PyTuple(<<PyInt(1), PyBytes(<<7>>)>>), MakeRef),
                   marshal_to_str(TestObject, MakeRef),
                   marshal_to_str(PyList(<<TestObject>>), MakeRef),
                   PyDict(<<Item(Lit.data, PyInt(5))>>),
                   BadText, Undecodable}}
        \cup {R(404, "not found", Attr.zz, FALSE, b) : b \in {PyNone, Undecodable}}
        \cup {R(400, "not callable", Attr.a, FALSE, PyNone),
              R(400, "error calling", Attr.ex, TRUE, PyNone),
              R(400, "invalid body", <<>>, FALSE, Undecodable),
              R(415, "expected json", <<>>, FALSE, PyNone),
              R(500, "unhandled", <<>>, FALSE, PyNone),
              R(599, "no response", <<>>, FALSE, PyNone)}

\* RPCNode.__getattr__(name), up to the request RPCConnection.get sends
ClGetAttr ==
    /\ cl.pc = "ready"
    /\ \E e \in ClientEndpoints, n \in NodeNames :
          cl' = [cl EXCEPT !.pc = "waiting", !.op = "getattr", !.endpoint = e, !.name = n,
                           !.sent = <<[method |-> "GET",
                                       path |-> urljoin(<<"/">>, urljoin(e, n))]>>]
    /\ UNCHANGED <<mvars, svars, mrec>>

\* RPCNode.__setattr__(name, value): self.connection.put is looked up first
ClSetAttr ==
    /\ cl.pc = "ready"
    /\ \E e \in ClientEndpoints, n \in NodeNames :
          cl' = IF "put" \in RPCConnectionMethods
                THEN [cl EXCEPT !.pc = "waiting", !.op = "setattr", !.endpoint = e,
                                !.name = n,
                                !.sent = <<[method |-> "PUT",
                                            path |-> urljoin(<<"/">>, urljoin(e, n))]>>]
                ELSE [cl EXCEPT !.pc = "done", !.op = "setattr", !.endpoint = e,
                                !.name = n,
                                !.result = Raised("AttributeError", "put")]
    /\ UNCHANGED <<mvars, svars, mrec>>

\* RPCNode.call(), up to the request RPCConnection.post sends
ClCall ==
    /\ cl.pc = "ready"
    /\ \E e \in ClientEndpoints :
          cl' = [cl EXCEPT !.pc = "waiting", !.op = "call", !.endpoint = e,
                           !.sent = <<[method |-> "POST", path |-> urljoin(<<"/">>, e)]>>]
    /\ UNCHANGED <<mvars, svars, mrec>>

\* RPCConnection.get and RPCConnection.post from the response on
ClRespond ==
    /\ cl.pc = "waiting"
    /\ \E r \in Responses :
          cl' = [cl EXCEPT !.pc = "done", !.resp = r, !.result = client_result(r)]
    /\ UNCHANGED <<mvars, svars, mrec>>

NextClient == ClGetAttr \/ ClSetAttr \/ ClCall \/ ClRespond

SpecClient == Init /\ [][NextClient]_vars

-----------------------------------------------------------------------------
(* The marshal pipeline: marshal a value, send it as JSON, unmarshal it *)

InitMarshal ==
    /\ mrf \in {NoFactory, ConstFactory(Lit.ref_url)}
    /\ mnf \in {NoNodes, MakeNode}
    /\ mtree = PyNone
    /\ mout = PyNone
    /\ \/ msrc = "value" /\ mpc = "start" /\ mval \in Values /\ mwire = PyNone
       \/ msrc = "wire" /\ mpc = "wire" /\ mval = PyNone /\ mwire \in Received
          /\ mrf = NoFactory
    /\ IdleServer
    /\ IdleClient
    /\ IdleWalk

\* marshal(obj, ref_factory)
DoMarshal ==
    /\ mpc = "start"
    /\ mtree' = marshal(mval, mrf)
    /\ mpc' = IF IsError(mtree') THEN "failed" ELSE "marshaled"
    /\ UNCHANGED <<msrc, mval, mrf, mnf, mwire, mout>>
    /\ UNCHANGED <<svars, cl, mrec>>

\* json.dump on the sender, json.loads on the receiver
DoTransfer ==
    /\ mpc = "marshaled"
    /\ mwire' = json_loads(json_dump(mtree))
    /\ mpc' = "wire"
    /\ UNCHANGED <<msrc, mval, mrf, mnf, mtree, mout>>
    /\ UNCHANGED <<svars, cl, mrec>>

\* unmarshal(obj, node_factory)
DoUnmarshal ==
    /\ mpc = "wire"
    /\ mout' = unmarshal(mwire, mnf)
    /\ mpc' = "done"
    /\ UNCHANGED <<msrc, mval, mrf, mnf, mtree, mwire>>
    /\ UNCHANGED <<svars, cl, mrec>>

NextMarshal == DoMarshal \/ DoTransfer \/ DoUnmarshal

SpecMarshal == InitMarshal /\ [][NextMarshal]_vars

-----------------------------------------------------------------------------
(* marshal_obj call by call, on values that may hold themselves.  The caller's *)
(* objects are the cells of a heap: an int, an object no rule matches, or a    *)
(* list of cells.  Cell 1 is the value handed to marshal_obj.  A frame is one  *)
(* call of marshal_obj: the cell it was given and how many items of it have    *)
(* been marshaled.                                                             *)

\* the value cell n stands for, followed through at most fuel lists
RECURSIVE Unfold(_, _, _)
Unfold(heap, n, fuel) ==
    IF heap[n].k = "int" THEN PyInt(n)
    ELSE IF heap[n].k = "obj" THEN TestObject
    ELSE IF fuel = 0 THEN PyList(<<>>)
    ELSE PyList([i \in 1..Len(heap[n].items) |-> Unfold(heap, heap[n].items[i], fuel - 1)])

\* a slip that is not in the code: a list already being marshaled is skipped
recurs_unless_seen(stack, child) == \A i \in 1..Len(stack) : stack[i].node # child

\* list(map(recur, obj)) calls recur on every item, whatever it is
recurs(stack, child) == TRUE

InitWalk ==
    /\ IdleMarshal /\ IdleServer /\ IdleClient
    /\ LET cells == {[k |-> "int", items |-> <<>>], [k |-> "obj", items |-> <<>>]}
                       \cup {[k |-> "list", items |-> s] :
                               s \in {<<>>} \cup {<<a>> : a \in 1..HeapSize}
                                            \cup {<<a, b>> : a \in 1..HeapSize,
                                                             b \in 1..HeapSize}}
       IN  \E heap \in [1..HeapSize -> cells],
              rf \in {NoFactory, ConstFactory(Lit.ref_url)} :
               mrec = [pc |-> "running", heap |-> heap, rf |-> rf,
                       stack |-> <<[node |-> 1, done |-> 0]>>,
                       exc |-> "none", out |-> PyNone]

\* recur(item) for the next item of the list of the frame on top: a new call of
\* marshal_obj, or RecursionError when the interpreter has no room for its frame
WalkCall ==
    /\ mrec.pc = "running"
    /\ \E top \in {mrec.stack[Len(mrec.stack)]} :
       \E cell \in {mrec.heap[top.node]} :
          /\ cell.k = "list" /\ top.done < Len(cell.items)
          /\ mrec' =
                IF ~recurs(mrec.stack, cell.items[top.done + 1])
                THEN [mrec EXCEPT !.stack[Len(mrec.stack)].done = top.done + 1]
                ELSE IF Len(mrec.stack) = RecursionLimit
                THEN [mrec EXCEPT !.pc = "raised", !.exc = "RecursionError"]
                ELSE [mrec EXCEPT
                        !.stack = Append(@, [node |-> cell.items[top.done + 1], done |-> 0])]
    /\ UNCHANGED <<mvars, svars, cl>>

\* the call on top returns: an int as it is, an object as a reference, a list
\* when all its items are marshaled; the outermost call returns the result
WalkReturn ==
    /\ mrec.pc = "running"
    /\ \E top \in {mrec.stack[Len(mrec.stack)]} :
       \E cell \in {mrec.heap[top.node]} :
          /\ \/ cell.k = "int"
             \/ cell.k = "obj" /\ mrec.rf.kind # "none"
             \/ cell.k = "list" /\ top.done = Len(cell.items)
          /\ mrec' =
                IF Len(mrec.stack) = 1
                THEN [mrec EXCEPT
                        !.pc = "returned", !.stack = <<>>,
                        !.out = marshal_obj(Unfold(mrec.heap, 1, RecursionLimit), mrec.rf)]
                ELSE [mrec EXCEPT
                        !.stack = [SubSeq(@, 1, Len(@) - 1) EXCEPT
                                      ![Len(mrec.stack) - 1].done = @ + 1]]
    /\ UNCHANGED <<mvars, svars, cl>>

\* an object no rule matches, and no ref_factory: TypeError("Unsupported type")
WalkUnsupported ==
    /\ mrec.pc = "running"
    /\ mrec.heap[mrec.stack[Len(mrec.stack)].node].k = "obj"
    /\ mrec.rf.kind = "none"
    /\ mrec' = [mrec EXCEPT !.pc = "raised", !.exc = "TypeError"]
    /\ UNCHANGED <<mvars, svars, cl>>

NextWalk == WalkCall \/ WalkReturn \/ WalkUnsupported

\* the interpreter keeps running the call in progress
SpecWalk == InitWalk /\ [][NextWalk]_vars /\ WF_vars(NextWalk)

-----------------------------------------------------------------------------
(* Claims about the marshal pipeline *)

\* the same kind of value at every level (a == b does not tell 1 from 1.0)
RECURSIVE SameKinds(_, _)
SameKinds(a, b) ==
    /\ a.k = b.k
    /\ IF a.k \in {"list", "tuple"}
           THEN Len(a.v) = Len(b.v) /\ \A i \in 1..Len(a.v) : SameKinds(a.v[i], b.v[i])
       ELSE IF a.k = "set"
           THEN \A i \in 1..Len(a.v) :
                    \E j \in 1..Len(b.v) : PyEq(a.v[i], b.v[j]) /\ SameKinds(a.v[i], b.v[j])
       ELSE IF a.k = "dict"
           THEN \A i \in 1..Len(a.v) :
                    HasKey(b, a.v[i].key) /\ SameKinds(a.v[i].val, GetItem(b, a.v[i].key))
       ELSE TRUE

\* C1: a value nested from integers, strings, null, byte strings, complex numbers,
\* lists, tuples, sets and string-keyed mappings comes back from
\* unmarshal(marshal(V)) equal to V, every container of the kind it went in as.
C1_RoundTrip ==
    (mpc = "done" /\ msrc = "value" /\ ByValue(mval)) =>
        /\ ~IsError(mout)
        /\ PyEq(mout, mval)
        /\ SameKinds(mout, mval)

\* a set that holds an integer and a tuple of a byte string has made the round trip
C1_Witness ==
    /\ mpc = "done"
    /\ msrc = "value"
    /\ mval = PySet(<<PyInt(1), PyTuple(<<PyBytes(<<0, 5, 8, 255>>)>>)>>)
    /\ mout.k = "set"

\* what the claim C2 says unmarshal does with a received object
C2_Expected(obj) ==
    IF obj.k # "dict" THEN Raised("TypeError", "Expected a dict")
    ELSE IF \/ ~HasKey(obj, Lit.ver)
            \/ ~HasKey(obj, Lit.data)
            \/ GetItem(obj, Lit.ver).k # "str"
            \/ decode_version(GetItem(obj, Lit.ver).v) = <<-1>>
        THEN Raised("ValueError", "Could not decode protocol version info.")
    ELSE IF decode_version(GetItem(obj, Lit.ver).v) # <<0, 1>>
        THEN Raised("ValueError", "Unsupported protocol version")
    ELSE unmarshal_obj(GetItem(obj, Lit.data), mnf)

\* C2: unmarshal decodes the payload only of a mapping that has 'v' and 'data' and
\* whose version is (0, 1); a non-mapping is a type error, an absent 'v' or 'data'
\* or a 'v' that does not parse is "could not decode version", another version is
\* "unsupported version".
C2_EnvelopeErrors ==
    (mpc = "done" /\ msrc = "wire") => mout = C2_Expected(mwire)

\* C3: a value with no by-value encoding is marshaled, with a callback, as exactly
\* {type: 'ref', url: the callback's result, class: the value's type name}, and
\* without a callback marshaling fails with an unsupported-type error.
C3_ReferenceFallback ==
    (mpc \in {"marshaled", "failed"} /\ msrc = "value" /\ mval.k = "obj"
         /\ mval.v.caps \cap {"__float__", "to_dict", "to_set", "__iter__"} = {}) =>
        IF mrf.kind = "none"
        THEN mpc = "failed" /\ mtree = Raised("TypeError", "Unsupported type")
        ELSE /\ mpc = "marshaled"
             /\ PyEq(GetItem(mtree, Lit.data),
                     PyDict(<<Item(Lit.type, PyStr(Lit.ref)),
                              Item(Lit.url, PyStr(mrf.url)),
                              Item(Lit.class, PyStr(mval.v.cls))>>))
             /\ Len(GetItem(mtree, Lit.data).v) = 3

\* the object of test_marshal_ref has been marshaled with the callback of the test
C3_Witness ==
    /\ mpc = "marshaled"
    /\ mval = TestObject
    /\ mrf = ConstFactory(Lit.ref_url)

-----------------------------------------------------------------------------
(* Claims about the server and its client *)

\* C4: attribute access on a proxy made from a reference to an object O issues a
\* GET whose resolution on the server starts from O, as long as O is alive and
\* registered under its id.
C4_ProxyGetAttr ==
    (last.via = "getattr" /\ last.fromRef /\ last.nodeLive /\ last.nodeReg) =>
        last.start = last.nodeobj

\* an attribute of a live Item has been read through the proxy made for it
C4_Witness ==
    /\ last.via = "getattr"
    /\ last.fromRef /\ last.nodeLive /\ last.nodeReg
    /\ last.nodeobj > 2
    /\ last.status = 200
    /\ last.start = last.nodeobj

\* C5: the object a reference was handed out for is what a GET on the path of
\* the reference reaches while the object is alive; once it has been collected,
\* this GET and every later GET on the path are answered 404 "not found".
C5_ReferenceLifecycle ==
    (last.method = "GET" /\ last.onNode) =>
        IF last.nodeLive THEN last.start = last.nodeobj
        ELSE last.status = 404 /\ last.kind = "not found"

\* C6: a GET walks the path one attribute per segment from the root object, or
\* from the referenced object for a path under /id/<id>/; the first segment that
\* does not resolve gives a 404 whose text names the path up to and including
\* that segment, whichever of the two the path began at.
C6_NotFoundNamesPrefix ==
    (last.method = "GET" /\ last.failedAt > 0) =>
        /\ last.status = 404
        /\ last.kind = "not found"
        /\ Strip(last.named, {"/"}) =
               Join(SubSeq(Components(last.path), 1, last.failedAt), "/")

\* the positional and keyword arguments the claim C7 reads off a decoded body
C7_Args(d) ==
    IF d.k = "dict" THEN (IF HasKey(d, Lit.args) THEN Iterate(GetItem(d, Lit.args)).v ELSE <<>>)
    ELSE IF d.k = "list" THEN d.v
    ELSE <<d>>
C7_Kwargs(d) ==
    IF d.k = "dict" /\ HasKey(d, Lit.kwargs) THEN GetItem(d, Lit.kwargs) ELSE PyDict(<<>>)

\* the request got as far as a body that decodes
C7_Decoded == last.method = "POST" /\ last.status # 415 /\ ~IsError(last.decoded)

\* C7: a POST to a path that resolves to a callable m, with a body that decodes
\* to {"args": A, "kwargs": K}, calls m once with A and K and answers 200 when m
\* returns; a body that is a list gives the positional arguments, any other
\* value is the one positional argument.
C7_PostInvokes ==
    (C7_Decoded /\ last.resolves /\ callable(last.target)) =>
        /\ last.calls = <<[target |-> last.target, args |-> C7_Args(last.decoded),
                           kwargs |-> C7_Kwargs(last.decoded)]>>
        /\ last.outcome = "return" => last.status = 200

C8_NonCallable == last.method = "POST" /\ last.resolves /\ ~callable(last.target)

\* C8 as it is stated: a POST to a path that resolves to a non-callable object
\* calls nothing and is answered 400 "not callable", whatever the body is,
\* because the path is resolved and checked before the body is decoded.
C8_CheckedBeforeDecode ==
    (C8_NonCallable /\ last.status # 415) =>
        /\ last.calls = <<>>
        /\ last.status = 400
        /\ last.kind = "not callable"

\* C8, amended: a POST to a path that resolves to a non-callable object calls
\* nothing and is never answered 200; the body is decoded before the path is
\* resolved, so the answer is 400 "not callable", naming the path, exactly when
\* the content type is accepted, the body decodes and the arguments bind.
C8_NotCallableAfterDecode ==
    C8_NonCallable =>
        /\ last.calls = <<>>
        /\ last.status # 200
        /\ (/\ C7_Decoded
            /\ ~IsError(Iterate(IF last.decoded.k = "dict" /\ HasKey(last.decoded, Lit.args)
                                THEN GetItem(last.decoded, Lit.args) ELSE PyList(<<>>)))
            /\ C7_Kwargs(last.decoded).k = "dict"
            /\ ~HasKey(C7_Kwargs(last.decoded), Lit.endpoint)
            /\ ~HasKey(C7_Kwargs(last.decoded), Lit.self))
           <=> (last.status = 400 /\ last.kind = "not callable" /\ last.named = last.path)

\* a call has been posted to the plain attribute a and refused
C8_Witness ==
    /\ C8_NonCallable
    /\ C7_Decoded
    /\ last.target = PyInt(5)
    /\ last.kind = "not callable"

C9_Answered ==
    /\ last.status = 400
    /\ last.kind = "error calling"
    /\ last.named = last.path
    /\ last.trace
    /\ running

\* C9 as it is stated: whenever the callable that was invoked raises, the answer
\* is 400 with a text that names the path and carries the traceback, and the
\* server goes on serving.
C9_AnyRaise == last.outcome \in {"raise", "exit"} => C9_Answered

\* C9, amended: when the callable that was invoked raises an exception derived
\* from Exception, the answer is 400 with a text that names the path and carries
\* the traceback, and the server goes on serving.
C9_ExceptionRaise == last.outcome = "raise" => C9_Answered

\* the method ex has been called and has raised ValueError
C9_Witness ==
    /\ last.outcome = "raise"
    /\ Len(last.calls) = 1
    /\ last.calls[1].target.v.held.v[2].v = Attr.ex
    /\ last.status = 400

\* C10: a POST whose body cannot be decoded, because it is no JSON or no valid
\* envelope, is answered 400 "Invalid JSON body" and the target is not called.
C10_UndecodableBody ==
    (last.method = "POST" /\ last.status # 415 /\ IsError(last.decoded)) =>
        /\ last.status = 400
        /\ last.kind = "invalid body"
        /\ last.calls = <<>>

-----------------------------------------------------------------------------
(* Claims about the content type of a POST *)

\* the media type of a Content-Type header, its parameters left out
C11_MediaType(ctype) ==
    LET semis == {i \in 1..Len(ctype) : ctype[i] = ";"}
        head == IF semis = {} THEN ctype ELSE SubSeq(ctype, 1, SetMin(semis) - 1)
    IN  Strip(head, Whitespace)

C11_Accepted(ctype) == ctype = <<>> \/ C11_MediaType(ctype) \in {Lit.json, Lit.xjson}

\* C11: a POST whose Content-Type, parameters such as charset left out, is neither
\* application/json nor application/x-json is answered 415 with the body not
\* parsed, the target not resolved and nothing called; a POST with no
\* Content-Type, or with an accepted one, is never answered 415
C11_UnsupportedMediaType ==
    last.method = "POST" =>
        IF C11_Accepted(last.ctype) THEN last.status # 415
        ELSE /\ last.status = 415
             /\ last.decoded = PyNone
             /\ last.start = 0 /\ last.failedAt = 0
             /\ last.calls = <<>>
             /\ last.outcome = "none"

\* a text/plain POST to a path that does not resolve, with a body that is no JSON
C11_Witness ==
    /\ last.method = "POST" /\ last.ctype = Lit.text /\ last.body = BadText
    /\ ~last.resolves
    /\ last.status = 415

-----------------------------------------------------------------------------
(* Claims about the client *)

C12_Kind(status) ==
    IF status = 404 THEN "AttributeError" ELSE IF status = 400 THEN "TypeError" ELSE "HTTPError"

-----------------------------------------------------------------------------
(* Claims about tags *)

C13_Contains(s, sub) ==
    \E i \in 0..(Len(s) - Len(sub)) : SubSeq(s, i + 1, i + Len(sub)) = sub

\* C13: unmarshaling an envelope whose payload holds, at any depth, a tagged
\* object with a 'type' that is none of dict, tuple, set, ndarray, complex, bytes,
\* ref returns no value: it raises ValueError with a message that names the tag
C13_UnknownTagNamed ==
    (/\ mpc = "done" /\ msrc = "wire"
     /\ mwire.k = "dict"
     /\ HasKey(mwire, Lit.ver) /\ HasKey(mwire, Lit.data)
     /\ GetItem(mwire, Lit.ver).k = "str"
     /\ GetItem(mwire, Lit.ver).v = MARSHAL_VERSION_STR
     /\ GetItem(mwire, Lit.data) \in UnknownTagged)
        => /\ IsError(mout)
           /\ mout.v.exc = "ValueError"
           /\ C13_Contains(mout.v.msg, Lit.bogus)

-----------------------------------------------------------------------------
(* Claims about the path walk *)

\* C14: a path segment __sig__ stands for the signature of the object reached so
\* far and is not looked up as an attribute: GET /m/__sig__, m a method, is
\* answered 200 with the marshaled signature, and GET /a/__sig__, a an int with
\* no signature, is answered 404
C14_SignatureSegment ==
    last.method = "GET" =>
        /\ last.path = Path(<<Attr.m, Lit.sig>>) =>
                last.status = 200 /\ last.payload # PyNone
        /\ last.path = Path(<<Attr.a, Lit.sig>>) => last.status = 404

-----------------------------------------------------------------------------
(* Claims about the registry *)

\* the response is one reference; its url and the id in the url
C15_IsRef ==
    /\ last.status = 200
    /\ GetItem(last.payload, Lit.data).k = "dict"
    /\ GetItem(GetItem(last.payload, Lit.data), Lit.type) = PyStr(Lit.ref)
C15_Url == GetItem(GetItem(last.payload, Lit.data), Lit.url).v
C15_Id == Split(Strip(C15_Url, {"/"}), "/")[2]

-----------------------------------------------------------------------------
(* Claims about the encoding of containers *)

\* t is {'type': ty, 'data': ...} and nothing more
C16_Tagged(t, ty) ==
    /\ t.k = "dict" /\ Len(t.v) = 2
    /\ HasKey(t, Lit.type) /\ GetItem(t, Lit.type) = PyStr(ty)
    /\ HasKey(t, Lit.data)

\* t encodes x as C16 says, at every depth
RECURSIVE C16_Encodes(_, _)
C16_Encodes(x, t) ==
    IF x.k = "dict" THEN
        /\ C16_Tagged(t, Lit.dict)
        /\ LET d == GetItem(t, Lit.data)
           IN  /\ d.k = "dict" /\ Len(d.v) = Len(x.v)
               /\ \A i \in 1..Len(x.v) :
                     /\ d.v[i].key = x.v[i].key
                     /\ C16_Encodes(x.v[i].val, d.v[i].val)
    ELSE IF x.k = "tuple" THEN
        /\ C16_Tagged(t, Lit.tuple)
        /\ LET d == GetItem(t, Lit.data)
           IN  /\ d.k = "list" /\ Len(d.v) = Len(x.v)
               /\ \A i \in 1..Len(x.v) : C16_Encodes(x.v[i], d.v[i])
    ELSE IF x.k = "list" THEN
        /\ t.k = "list" /\ Len(t.v) = Len(x.v)
        /\ \A i \in 1..Len(x.v) : C16_Encodes(x.v[i], t.v[i])
    ELSE t = marshal_obj(x, mrf)

\* C16: marshal_obj encodes a mapping as {'type': 'dict', 'data': {key: encoded
\* value}}, a tuple as {'type': 'tuple', 'data': [encoded items]} and a list as
\* the bare array of its encoded items, never tagged, at every depth
C16_ContainerEncoding ==
    (mpc \in {"marshaled", "wire", "done"} /\ msrc = "value") =>
        C16_Encodes(mval, GetItem(mtree, Lit.data))

\* a dict holding a tuple holding a list has been marshaled
C16_Witness ==
    /\ mpc = "marshaled"
    /\ mval = PyDict(<<Item(<<"a">>, PyTuple(<<PyList(<<>>)>>))>>)
    /\ C16_Encodes(mval, GetItem(mtree, Lit.data))

-----------------------------------------------------------------------------
(* Claims about the requests of a proxy *)

\* the path E/n
C17_Child(E, n) == (IF E[Len(E)] = "/" THEN E ELSE E \o <<"/">>) \o n

\* C17: reading attribute n of a proxy with endpoint E, with or without a closing
\* "/", sends one GET whose path is E/n; the caller gets a new proxy bound to the
\* url of the reference when the response is a reference, else a plain value
C17_GetAttrRequest ==
    cl.op = "getattr" =>
        /\ cl.sent = <<[method |-> "GET", path |-> C17_Child(cl.endpoint, cl.name)]>>
        /\ (cl.pc = "done" /\ cl.resp.status = 200 /\ ~IsError(cl.result)) =>
               IF GetItem(cl.resp.payload, Lit.data) = marshal_obj(TestObject, MakeRef)
               THEN cl.result = PyNode(make_ref_url(TestObject))
               ELSE cl.result.k # "node"

\* C18: assigning to attribute n of a proxy with endpoint E sends a PUT request
\* to E/n
C18_SetAttrRequest ==
    cl.op = "setattr" =>
        /\ Len(cl.sent) = 1
        /\ cl.sent[1].method = "PUT"
        /\ cl.sent[1].path = C17_Child(cl.endpoint, cl.name)

-----------------------------------------------------------------------------
(* Claims about requests that interleave *)

\* one request handled: the registry before it, the registry and the response after
C19_RegistrySteps ==
    /\ DOMAIN refs \subseteq DOMAIN refs'
    /\ \A x \in DOMAIN refs : refs[x] \in LiveOids => refs'[x] = refs[x]
    /\ (/\ items' = items \/ Len(items') > Len(items)
        /\ last'.method = "GET" /\ IdOf(last'.path) # <<>>) =>
            IF IdOf(last'.path) \in DOMAIN refs /\ refs[IdOf(last'.path)] \in LiveOids
            THEN /\ last'.start = refs[IdOf(last'.path)]
                 /\ last'.failedAt # 2
            ELSE last'.status = 404 /\ last'.failedAt = 2

-----------------------------------------------------------------------------
(* Claims about the order of the rules of marshal_obj *)

C20_Has(x, name) == x.k = "obj" /\ name \in x.v.caps

\* the first rule, in the order of C20, that x matches
C20_Rule(x) ==
    IF x.k \in {"int", "float", "str", "none"} THEN "scalar"
    ELSE IF x.k = "complex" THEN "complex"
    ELSE IF x.k = "ndarray" THEN "ndarray"
    ELSE IF C20_Has(x, "__float__") THEN "float"
    ELSE IF x.k = "bytes" THEN "bytes"
    ELSE IF x.k = "dict" \/ C20_Has(x, "to_dict") THEN "mapping"
    ELSE IF x.k = "set" \/ C20_Has(x, "to_set") THEN "set"
    ELSE IF x.k \in {"list", "tuple"} \/ C20_Has(x, "__iter__") THEN "iterable"
    ELSE "reference"

C20_Tag(t) == IF t.k = "dict" /\ HasKey(t, Lit.type) THEN GetItem(t, Lit.type).v ELSE <<>>

\* t is what the rule makes of x
C20_Fits(rule, x, t) ==
    IF rule = "scalar" THEN t = x
    ELSE IF rule = "complex" THEN C20_Tag(t) = Lit.complex
    ELSE IF rule = "ndarray" THEN C20_Tag(t) = Lit.ndarray
    ELSE IF rule = "float" THEN t.k = "float"
    ELSE IF rule = "bytes" THEN C20_Tag(t) = Lit.bytes
    ELSE IF rule = "mapping" THEN C20_Tag(t) = Lit.dict
    ELSE IF rule = "set" THEN C20_Tag(t) = Lit.set
    ELSE IF rule = "iterable" THEN t.k = "list" \/ C20_Tag(t) = Lit.tuple
    ELSE C20_Tag(t) = Lit.ref

\* C20: marshal_obj applies the first rule that matches, in the order native
\* scalar, complex, ndarray, float-convertible, bytes, mapping, set, tuple or
\* iterable, reference: a float-convertible value that is also iterable becomes a
\* float, a value with to_dict and to_set becomes a dict, and the reference, or
\* the unsupported-type error, is made only of a value no earlier rule matches
C20_FirstRuleWins ==
    msrc = "value" =>
        /\ mpc \in {"marshaled", "wire", "done"} =>
               C20_Fits(C20_Rule(mval), mval, GetItem(mtree, Lit.data))
        /\ (mpc = "failed" /\ mval \in Capable \cup {TestObject}) =>
               C20_Rule(mval) = "reference" /\ mrf = NoFactory
        /\ (mpc # "start" /\ C20_Rule(mval) = "reference") =>
               mpc = "failed" <=> mrf = NoFactory

\* an object with __float__ and __iter__ has been marshaled as a float
C20_Witness ==
    /\ mpc = "marshaled"
    /\ C20_Has(mval, "__float__") /\ C20_Has(mval, "__iter__")
    /\ GetItem(mtree, Lit.data) = PyFloat(3)

-----------------------------------------------------------------------------
(* Claims about the life of registry entries *)

\* one step: a request handled, or an object collected
C21_RegistryStep ==
    /\ DOMAIN refs \subseteq DOMAIN refs'
    \* an object collected: the table is as it was
    /\ (items' # items /\ Len(items') = Len(items)) => refs' = refs
    \* a GET under the id of a dead entry
    /\ (/\ items' = items \/ Len(items') > Len(items)
        /\ last'.method = "GET"
        /\ IdOf(last'.path) \in DOMAIN refs
        /\ refs[IdOf(last'.path)] \notin LiveOids) =>
            /\ last'.status = 404 /\ last'.kind = "not found"
            /\ refs' = refs

\* C21: over requests and object deaths the set of ids in the registry only
\* grows: no request removes an entry, the entry of an object that has died stays
\* in the table, and it is found dead only when a request resolves it, which is
\* then answered 404 "not found"
C21_RegistryOnlyGrows == [][C21_RegistryStep]_vars

\* a GET under the id of a dead entry has been answered 404, the entry still there
C21_Witness ==
    /\ last.method = "GET" /\ last.status = 404 /\ last.failedAt = 2
    /\ IdOf(last.path) \in DOMAIN refs
    /\ refs[IdOf(last.path)] \notin LiveOids

-----------------------------------------------------------------------------
(* Claims about the recursion of marshal_obj *)

\* the cells one item away from the cells of S
C22_Items(heap, S) == UNION {{heap[n].items[i] : i \in 1..Len(heap[n].items)} : n \in S}

\* the cells one or more items away from cell n
RECURSIVE C22_Below(_, _, _)
C22_Below(heap, S, fuel) ==
    IF fuel = 0 THEN {}
    ELSE C22_Items(heap, S) \cup C22_Below(heap, C22_Items(heap, S), fuel - 1)

\* the value handed to marshal_obj holds a list that holds itself
C22_Cyclic ==
    \E n \in {1} \cup C22_Below(mrec.heap, {1}, HeapSize) :
        n \in C22_Below(mrec.heap, {n}, HeapSize)

\* C22: marshal_obj ends on every finite acyclic value, every branch of the
\* recursion ending at a native scalar or at a reference (or at the
\* unsupported-type error where there is no ref_factory); on a container that
\* holds itself it detects no cycle and never returns a result
C22_Termination ==
    /\ (~C22_Cyclic) ~> (mrec.pc = "returned" \/ (mrec.pc = "raised" /\ mrec.exc = "TypeError"))
    /\ [](mrec.pc = "returned" =>
            /\ ~C22_Cyclic
            /\ mrec.out = marshal_obj(Unfold(mrec.heap, 1, HeapSize), mrec.rf))
    /\ [](mrec.exc = "RecursionError" => C22_Cyclic)
    /\ C22_Cyclic ~> (mrec.pc = "raised")

\* a list that holds itself: the recursion has used every frame there is
C22_Witness ==
    /\ mrec.pc = "raised" /\ mrec.exc = "RecursionError"
    /\ mrec.heap[1] = [k |-> "list", items |-> <<1>>]
    /\ Len(mrec.stack) = RecursionLimit

-----------------------------------------------------------------------------
(* Claims about ids that are given out again *)

\* C23: a request under /id/I that resolves I starts from the object the id I
\* was issued for: the proxy a client holds for an object, dead or alive, never
\* reaches another object that was given the same id later
C23_NoOtherObject ==
    (last.onNode /\ last.start # 0) => last.start = last.nodeobj

-----------------------------------------------------------------------------
(* Claims about the responses *)

\* C24: every GET or POST the server handles ends with one response whose status
\* is 200, 400, 404 or 415, never with an unhandled error (500) or with no
\* response at all, and a response that is an error carries no marshal envelope
C24_OnlyFourStatuses ==
    last.method # "none" =>
        /\ last.status \in {200, 400, 404, 415}
        /\ last.kind \notin {"unhandled", "propagated"}
        /\ last.status # 200 => last.payload = PyNone

====
